---- MODULE Spec2Model ----
(***************************************************************************)
(* Model of fake_news_detection.ipynb: the text cleaner (clean_text and    *)
(* its stages) and the TextProcessor / Model pipeline built around it.     *)
(*                                                                         *)
(* A string is a sequence of characters, each character a one-element      *)
(* string.  The characters Python source writes outside ASCII are named:   *)
(* LSQUO RSQUO LDQUO RDQUO (curly quotes), ELLIPSIS, POUND, BACKSLASH,     *)
(* DQUOTE, BACKTICK.                                                       *)
(* Inside the cleaner every character is a cell <<ch, origin>>: origin is  *)
(* the character's index in the string clean_text was called with, or 0    *)
(* for a character the cleaner inserted itself.  The origin is a ghost     *)
(* annotation; no stage reads it.                                          *)
(***************************************************************************)
EXTENDS Integers, Sequences, FiniteSets, TLC

VARIABLES
    input,      \* cleaner: the string clean_text was called with
    text,       \* cleaner: the local variable `text` of clean_text
    cpc,        \* cleaner: number of statements of clean_text executed
    again,      \* cleaner: result of calling clean_text on its own output
    self,       \* pipeline: the Model instance (a record of its fields)
    ghost,      \* pipeline: execution counters and outcome of the last call
    rm          \* run_model: the iteration of its loop and the statement at
                \* which it stands

vars == <<input, text, cpc, again, self, ghost, rm>>

(***************************************************************************)
(* Bounds                                                                  *)
(***************************************************************************)
MaxPieces == 4
MaxOps == 2
NTrue == 4
NFake == 3

(***************************************************************************)
(* Characters                                                              *)
(***************************************************************************)
LowerAlpha == <<"a","b","c","d","e","f","g","h","i","j","k","l","m",
                "n","o","p","q","r","s","t","u","v","w","x","y","z">>
UpperAlpha == <<"A","B","C","D","E","F","G","H","I","J","K","L","M",
                "N","O","P","Q","R","S","T","U","V","W","X","Y","Z">>
Letters == {LowerAlpha[i] : i \in 1..26} \cup {UpperAlpha[i] : i \in 1..26}
Digits == {"0","1","2","3","4","5","6","7","8","9"}

\* regex \s and str.split(): whitespace
IsSpace(c) == c \in {" ", "\n", "\t"}
\* regex \d
IsDigit(c) == c \in Digits
\* regex \w
IsWord(c) == c \in Letters \cup Digits \cup {"_"}

\* str.lower() on one character
LowerChar(c) ==
    IF \E i \in 1..26 : UpperAlpha[i] = c
    THEN LowerAlpha[CHOOSE i \in 1..26 : UpperAlpha[i] = c]
    ELSE c

Ch(cell) == cell[1]
Org(cell) == cell[2]
SP == <<" ", 0>>
Tag(s) == [i \in 1..Len(s) |-> <<s[i], i>>]
Str(t) == [i \in 1..Len(t) |-> Ch(t[i])]

RECURSIVE Join(_, _)
\* sep.join(parts)
Join(parts, sep) ==
    IF parts = <<>> THEN <<>>
    ELSE IF Len(parts) = 1 THEN parts[1]
    ELSE parts[1] \o sep \o Join(Tail(parts), sep)

\* least index j >= i of t whose character satisfies no test of the run
\* started at i, Len(t)+1 when the run reaches the end
RECURSIVE RunEnd(_, _, _)
RunEnd(t, i, kind) ==
    IF i > Len(t) THEN i
    ELSE IF (kind = "nonspace" /\ ~IsSpace(Ch(t[i])))
            \/ (kind = "word" /\ IsWord(Ch(t[i])))
            \/ (kind = "nonword" /\ ~IsWord(Ch(t[i])))
         THEN RunEnd(t, i + 1, kind)
         ELSE i

(***************************************************************************)
(* Resources of the external libraries the cleaner reads                   *)
(***************************************************************************)
\* string.punctuation
StringPunctuation ==
    {"!", "DQUOTE", "#", "$", "%", "&", "'", "(", ")", "*", "+", ",", "-", ".",
     "/", ":", ";", "<", "=", ">", "?", "@", "[", "BACKSLASH", "]", "^", "_", "BACKTICK",
     "{", "|", "}", "~"}

\* stopwords.words("english"): the entries over the vocabulary used here
EnglishStopwords ==
    { <<"i">>, <<"a">>, <<"s">>, <<"t">>, <<"d">>, <<"m">>, <<"o">>, <<"y">>,
      <<"a","s">>, <<"i","s">>, <<"t","h","e">>, <<"n","o","w">> }

\* WordNetLemmatizer().lemmatize(word) with the default part of speech: a
\* noun that is not an exception and does not end in a plural suffix is
\* returned unchanged
WordNetLemma(w) ==
    IF w = <<"v","i","s","i","t","s">> THEN <<"v","i","s","i","t">>
    ELSE IF w = <<"f","e","e","t">> THEN <<"f","o","o","t">>
    ELSE w

(***************************************************************************)
(* The stages of the cleaner                                               *)
(***************************************************************************)
get_all_punctuations == EnglishStopwords \cup {<<c>> : c \in StringPunctuation}

\* index of the ">" closing the tag opened at i, 0 when there is none
TagEnd(t, i) ==
    LET js == {j \in (i+1)..Len(t) : Ch(t[j]) = ">"}
    IN IF js = {} THEN 0 ELSE CHOOSE j \in js : \A k \in js : j <= k

\* html.parser starts a tag at "<" followed by a letter or by "/"
OpensTag(t, i) ==
    /\ Ch(t[i]) = "<"
    /\ i < Len(t)
    /\ Ch(t[i+1]) \in Letters \cup {"/"}
    /\ TagEnd(t, i) > 0

RECURSIVE StripFrom(_, _)
StripFrom(t, i) ==
    IF i > Len(t) THEN <<>>
    ELSE IF OpensTag(t, i) THEN StripFrom(t, TagEnd(t, i) + 1)
    ELSE <<t[i]>> \o StripFrom(t, i + 1)

\* BeautifulSoup(text, "html.parser").get_text(): the text outside tags
strip_html(t) == StripFrom(t, 1)

\* text.lower()
lower(t) == [i \in 1..Len(t) |-> <<LowerChar(Ch(t[i])), Org(t[i])>>]

\* index of the first "]" after i, 0 when there is none
BracketEnd(t, i) ==
    LET js == {j \in (i+1)..Len(t) : Ch(t[j]) = "]"}
    IN IF js = {} THEN 0 ELSE CHOOSE j \in js : \A k \in js : j <= k

RECURSIVE BracketsFrom(_, _)
BracketsFrom(t, i) ==
    IF i > Len(t) THEN <<>>
    ELSE IF Ch(t[i]) = "[" /\ BracketEnd(t, i) > 0
         THEN BracketsFrom(t, BracketEnd(t, i) + 1)
         ELSE <<t[i]>> \o BracketsFrom(t, i + 1)

\* re.sub('\[[^]]*\]', '', text)
remove_between_square_brackets(t) == BracketsFrom(t, 1)

\* mutant of UrlAt: the pattern 'http:\S*', which wants the scheme's colon
UrlAt_scheme_only(t, i) ==
    /\ i + 4 <= Len(t)
    /\ Ch(t[i]) = "h" /\ Ch(t[i+1]) = "t" /\ Ch(t[i+2]) = "t" /\ Ch(t[i+3]) = "p"
    /\ Ch(t[i+4]) = ":"

\* 'http\S+' matches at i: "http" and at least one more non-space character
UrlAt(t, i) ==
    /\ i + 4 <= Len(t)
    /\ Ch(t[i]) = "h" /\ Ch(t[i+1]) = "t" /\ Ch(t[i+2]) = "t" /\ Ch(t[i+3]) = "p"
    /\ ~IsSpace(Ch(t[i+4]))

RECURSIVE UrlsFrom(_, _)
UrlsFrom(t, i) ==
    IF i > Len(t) THEN <<>>
    ELSE IF UrlAt(t, i) THEN UrlsFrom(t, RunEnd(t, i + 4, "nonspace"))
    ELSE <<t[i]>> \o UrlsFrom(t, i + 1)

\* re.sub(r'http\S+', '', text)
remove_urls(t) == UrlsFrom(t, 1)

RECURSIVE SplitWs(_, _, _)
\* text.split(): the maximal runs of non-space characters
SplitWs(t, i, cur) ==
    IF i > Len(t) THEN (IF cur = <<>> THEN <<>> ELSE <<cur>>)
    ELSE IF IsSpace(Ch(t[i]))
         THEN (IF cur = <<>> THEN <<>> ELSE <<cur>>) \o SplitWs(t, i + 1, <<>>)
         ELSE SplitWs(t, i + 1, Append(cur, t[i]))

RECURSIVE StripLeft(_)
StripLeft(t) ==
    IF t # <<>> /\ IsSpace(Ch(t[1])) THEN StripLeft(Tail(t)) ELSE t

RECURSIVE StripRight(_)
StripRight(t) ==
    IF t # <<>> /\ IsSpace(Ch(t[Len(t)]))
    THEN StripRight(SubSeq(t, 1, Len(t) - 1)) ELSE t

\* str.strip()
Strip(t) == StripRight(StripLeft(t))

\* the list _punctuations of remove_stopwords; its entry '--' never matches,
\* '-' being replaced before it
Punctuations ==
    {"BACKSLASH", "BACKTICK", "*", "_", "{", "}", "[", "]", "(", ")", "/", "LDQUO", "RDQUO",
     "RSQUO", "LSQUO", ">", "@", "#", "+", "-", "?", "%", "POUND", ".", ":",
     ";", ",", "!", "$", "'"}

\* for ch in _punctuations: i = i.replace(ch, " ")
ReplacePunctuations(tok) ==
    [i \in 1..Len(tok) |-> IF Ch(tok[i]) \in Punctuations THEN SP ELSE tok[i]]

RECURSIVE KeptTokens(_)
\* the loop of remove_stopwords over text.split()
KeptTokens(toks) ==
    IF toks = <<>> THEN <<>>
    ELSE IF Str(lower(Strip(toks[1]))) \notin get_all_punctuations
         THEN <<Strip(ReplacePunctuations(toks[1]))>> \o KeptTokens(Tail(toks))
         ELSE KeptTokens(Tail(toks))

remove_stopwords(t) == Join(KeptTokens(SplitWs(t, 1, <<>>)), <<SP>>)

\* does the maximal word run t[i..j-1] hold a digit
RunHasDigit(t, i, j) == \E k \in i..(j-1) : IsDigit(Ch(t[k]))

RECURSIVE NumbersFrom(_, _)
NumbersFrom(t, i) ==
    IF i > Len(t) THEN <<>>
    ELSE IF IsWord(Ch(t[i]))
         THEN LET j == RunEnd(t, i, "word")
              IN (IF RunHasDigit(t, i, j) THEN <<>> ELSE SubSeq(t, i, j - 1))
                 \o NumbersFrom(t, j)
         ELSE <<t[i]>> \o NumbersFrom(t, i + 1)

RECURSIVE NumbersFrom_digit_runs(_, _)
NumbersFrom_digit_runs(t, i) ==
    IF i > Len(t) THEN <<>>
    ELSE IF IsWord(Ch(t[i]))
         THEN LET j == RunEnd(t, i, "word")
              IN (IF \A k \in i..(j-1) : IsDigit(Ch(t[k]))
                  THEN <<>> ELSE SubSeq(t, i, j - 1))
                 \o NumbersFrom_digit_runs(t, j)
         ELSE <<t[i]>> \o NumbersFrom_digit_runs(t, i + 1)

\* mutant of remove_numbers: the pattern '\b\d+\b', which deletes only the
\* runs made of digits alone
remove_numbers_digit_runs(t) == NumbersFrom_digit_runs(t, 1)

RECURSIVE NumbersFrom_tokens(_, _)
NumbersFrom_tokens(t, i) ==
    IF i > Len(t) THEN <<>>
    ELSE IF ~IsSpace(Ch(t[i]))
         THEN LET j == RunEnd(t, i, "nonspace")
              IN (IF RunHasDigit(t, i, j) THEN <<>> ELSE SubSeq(t, i, j - 1))
                 \o NumbersFrom_tokens(t, j)
         ELSE <<t[i]>> \o NumbersFrom_tokens(t, i + 1)

\* mutant of remove_numbers: the pattern '\S*\d\S*', which deletes every
\* whitespace-delimited run that holds a digit
remove_numbers_tokens(t) == NumbersFrom_tokens(t, 1)

\* re.sub('\w*\d\w*', '', text): every maximal run of word characters that
\* holds a digit is one match
remove_numbers(t) == NumbersFrom(t, 1)

\* re.sub('[...]', '', text) over the four curly quotes and the ellipsis
remove_accent_signs(t) ==
    SelectSeq(t, LAMBDA c : Ch(c) \notin {"LSQUO", "RSQUO", "LDQUO", "RDQUO", "ELLIPSIS"})

\* re.sub('\n', '', text)
remove_new_lines(t) == SelectSeq(t, LAMBDA c : Ch(c) # "\n")

RECURSIVE SplitNonWord(_, _, _)
SplitNonWord(t, i, cur) ==
    IF i > Len(t) THEN <<cur>>
    ELSE IF IsWord(Ch(t[i])) THEN SplitNonWord(t, i + 1, Append(cur, t[i]))
    ELSE <<cur>> \o SplitNonWord(t, RunEnd(t, i, "nonword"), <<>>)

\* mutant of tokenize: the empty pieces are dropped
tokenize_no_empty(t) == SelectSeq(SplitNonWord(t, 1, <<>>), LAMBDA tok : tok # <<>>)

\* re.split("\W+", text): the pieces between the runs of non-word characters,
\* an empty piece where the text starts or ends with such a run
tokenize(t) == SplitNonWord(t, 1, <<>>)

\* wl.lemmatize(word): the lemma's characters keep the word's origins
lemmatize(tok) ==
    LET l == WordNetLemma(Str(tok))
    IN IF l = Str(tok) THEN tok
       ELSE [i \in 1..Len(l) |-> <<l[i], Org(tok[IF i <= Len(tok) THEN i ELSE Len(tok)])>>]

RECURSIVE lemmatizer_skip_empty(_)
\* mutant of lemmatizer: the empty token is filtered like a stopword
lemmatizer_skip_empty(toks) ==
    IF toks = <<>> THEN <<>>
    ELSE IF Str(toks[1]) \notin EnglishStopwords /\ toks[1] # <<>>
         THEN <<lemmatize(toks[1])>> \o lemmatizer_skip_empty(Tail(toks))
         ELSE lemmatizer_skip_empty(Tail(toks))

RECURSIVE lemmatizer(_)
\* [wl.lemmatize(word) for word in text if word not in set(stopwords.words('english'))]
lemmatizer(toks) ==
    IF toks = <<>> THEN <<>>
    ELSE IF Str(toks[1]) \notin EnglishStopwords
         THEN <<lemmatize(toks[1])>> \o lemmatizer(Tail(toks))
         ELSE lemmatizer(Tail(toks))

\* mutant of clean_text_stage: URL removal before bracket removal
clean_text_stage_urls_first(n, v) ==
    CASE n = 1 -> strip_html(v)
      [] n = 2 -> lower(v)
      [] n = 3 -> remove_urls(v)
      [] n = 4 -> remove_between_square_brackets(v)
      [] n = 5 -> remove_stopwords(v)
      [] n = 6 -> remove_numbers(v)
      [] n = 7 -> remove_accent_signs(v)
      [] n = 8 -> remove_new_lines(v)
      [] n = 9 -> tokenize(v)
      [] n = 10 -> lemmatizer(v)
      [] n = 11 -> Join(v, <<SP>>)

\* the n-th statement of clean_text applied to the value of `text` before it
clean_text_stage(n, v) ==
    CASE n = 1 -> strip_html(v)
      [] n = 2 -> lower(v)
      [] n = 3 -> remove_between_square_brackets(v)
      [] n = 4 -> remove_urls(v)
      [] n = 5 -> remove_stopwords(v)
      [] n = 6 -> remove_numbers(v)
      [] n = 7 -> remove_accent_signs(v)
      [] n = 8 -> remove_new_lines(v)
      [] n = 9 -> tokenize(v)
      [] n = 10 -> lemmatizer(v)
      [] n = 11 -> Join(v, <<SP>>)

NStages == 11

RECURSIVE CleanFrom(_, _)
CleanFrom(n, v) == IF n > NStages THEN v ELSE CleanFrom(n + 1, clean_text_stage(n, v))

\* clean_text(text), with the origins of the characters it returns
clean_cells(s) == CleanFrom(1, Tag(s))

\* clean_text(text), computed
clean_text_of(s) == Str(clean_cells(s))

\* a word of two letters of its own for every row
Word(i) == <<LowerAlpha[2 * i - 1], LowerAlpha[2 * i]>>

\* pd.read_csv(true_news): the text column of True.csv
TrueCsv == [i \in 1..NTrue |-> <<"<","p",">">> \o Word(i) \o <<" ","1">>]
\* pd.read_csv(fake_news): the text column of Fake.csv
FakeCsv == [i \in 1..NFake |-> Word(NTrue + i) \o <<" ","[","x","]">>]

\* the documents of the two files, raw, cleaned and cleaned again, with what
\* clean_text returns for each: computed once and looked up by clean_text
CsvDocs == {TrueCsv[i] : i \in 1..NTrue} \cup {FakeCsv[i] : i \in 1..NFake}
CsvDocsCleaned == CsvDocs \cup {clean_text_of(d) : d \in CsvDocs}
CleanedDocs ==
    [d \in CsvDocsCleaned \cup {clean_text_of(d) : d \in CsvDocsCleaned}
        |-> clean_text_of(d)]

\* clean_text(text)
clean_text(s) == IF s \in DOMAIN CleanedDocs THEN CleanedDocs[s] ELSE clean_text_of(s)

(***************************************************************************)
(* The pipeline: TrainTestSplit, Vectorize, TextProcessor, Model.           *)
(* None is <<>> and a value v that may be None is <<v>>.  A data frame or   *)
(* a Series is a function from its index labels to its rows; the order of  *)
(* the rows is not modelled, no statement reading it except head(), whose  *)
(* result is modelled as any subset of the right size.                     *)
(* The operators below thread a record st = [s, g, ret]: s the instance,   *)
(* g the ghost counters, ret the value the call returns.  A raised         *)
(* exception is g.outcome # "ok"; every later step of the call is skipped. *)
(***************************************************************************)
None == <<>>
Some(v) == <<v>>
Get(o) == o[1]

\* the element of a one-element set.  The({F(a) : a \in {v}}) is F applied
\* to the value of v, v evaluated once: the local name of a statement
\* `a = v` followed by statements F that read a
The(S) == CHOOSE r \in S : TRUE

Ok(st) == st.g.outcome = "ok"
Raise(st, e) == [st EXCEPT !.g.outcome = e]
Count(st, f) == [st EXCEPT !.g[f] = @ + 1]
Return(st, v) == [st EXCEPT !.ret = v]

\* the members of the enums and one value that is no member of either
VectorizerType == {"Tfidf", "Count"}
ModelType == {"nb", "lr", "pa", "dt"}
\* the selectors a Model is constructed with
VectorizerArgs == VectorizerType \cup {"other"}
ModelArgs == {"nb", "dt", "other"}

NRows == NTrue + NFake
\* the values of sample_size explored: one short of the rows, and all rows
SampleSizes == {NRows - 1, NRows}

\* df.sample(frac=1).head(sample_size): the labels of any sample_size rows
Samples(k) ==
    {S \in SUBSET (1..NRows) : Cardinality(S) = (IF k < NRows THEN k ELSE NRows)}

\* TextProcessor.__init__
TextProcessor_init(st, args) ==
    Count(Count(
      [st EXCEPT !.s =
          [built |-> TRUE,
           _df |-> None,
           true_news |-> [text |-> TrueCsv, category |-> None],
           fake_news |-> [text |-> FakeCsv, category |-> None],
           vectorizer_type |-> args.vectorizer_type,
           sample_size |-> args.sample_size,
           _split |-> None,
           _vectorize |-> None,
           model_type |-> None,
           model |-> None,
           _score |-> None]],
      "n_read_csv"), "n_read_csv")

\* create_model: no branch for a value outside ModelType, so None is returned
create_model(model_type) ==
    IF model_type \in ModelType
    THEN Some([kind |-> model_type, fitted |-> FALSE])
    ELSE None

\* Model.__init__
Model_init(st, args) ==
    LET a == TextProcessor_init(st, args)
    IN [a EXCEPT !.s.model_type = Some(args.model_type),
                 !.s.model = create_model(args.model_type)]

\* TextProcessor.create_data_frame; S is the outcome of the shuffle
create_data_frame(st, S) ==
    IF ~Ok(st) THEN st
    ELSE LET a == [st EXCEPT !.s.true_news.category = Some(1),
                             !.s.fake_news.category = Some(0)]
             frame == [i \in S |->
                      IF i <= NTrue
                      THEN [text |-> a.s.true_news.text[i], category |-> 1]
                      ELSE [text |-> a.s.fake_news.text[i - NTrue], category |-> 0]]
         IN Return(Count(a, "n_assemble"), frame)

\* the property TextProcessor.df
df(st, S) ==
    IF ~Ok(st) THEN st
    ELSE IF st.s._df = None
         THEN The({
                 Return([a EXCEPT !.s._df = Some(a.ret)], a.ret)
                   : a \in {create_data_frame(st, S)} })
         ELSE Return(st, Get(st.s._df))

\* mutant of cleanup_text: every document is put through the cleaner twice
cleanup_text_twice(st, S) ==
    The({
        IF ~Ok(a) THEN a
        ELSE Count([a EXCEPT !.s._df =
                       Some([i \in DOMAIN a.ret |->
                               [a.ret[i] EXCEPT !.text = clean_text(clean_text(@))]])],
                   "n_clean")
                     : a \in {df(st, S)} })

\* TextProcessor.cleanup_text: the text column of the cached frame is
\* overwritten
cleanup_text(st, S) ==
    The({
        IF ~Ok(a) THEN a
        ELSE Count([a EXCEPT !.s._df =
                       Some([i \in DOMAIN a.ret |->
                               [a.ret[i] EXCEPT !.text = clean_text(@)]])],
                   "n_clean")
                     : a \in {df(st, S)} })

\* mutant of pre_processor: the corpus is assembled and nothing is cleaned
pre_processor_assemble_only(st, S1, S2) == create_data_frame(st, S1)

\* TextProcessor.pre_processor: the frame create_data_frame returns is dropped
pre_processor(st, S1, S2) ==
    The({ cleanup_text(a, S2)
      : a \in {create_data_frame(st, S1)} })

\* floor(train_size * n) for train_size = .8
NTrain(n) == (8 * n) \div 10

ClassRows(frame, c) == {i \in DOMAIN frame : frame[i].category = c}
Classes(frame) == {frame[i].category : i \in DOMAIN frame}

\* train_test_split(..., stratify=category) raises ValueError: a class with
\* one member, or fewer train or test rows than classes
SplitFails(frame) ==
    LET n == Cardinality(DOMAIN frame)
        k == Cardinality(Classes(frame))
    IN \/ n = 0
       \/ \E c \in Classes(frame) : Cardinality(ClassRows(frame, c)) < 2
       \/ NTrain(n) < k
       \/ n - NTrain(n) < k

\* the train index sets a stratified split of frame may draw
TrainChoices(frame) ==
    LET n == Cardinality(DOMAIN frame)
    IN {T \in SUBSET (DOMAIN frame) :
          /\ Cardinality(T) = NTrain(n)
          /\ \A c \in Classes(frame) :
                LET low == (NTrain(n) * Cardinality(ClassRows(frame, c))) \div n
                IN Cardinality(T \cap ClassRows(frame, c)) \in {low, low + 1}}

\* mutant of TestRows: a test set of floor(.2 * n) rows
TestRows_floor(frame, T) ==
    LET n == Cardinality(DOMAIN frame)
        rest == DOMAIN frame \ T
    IN CHOOSE U \in SUBSET rest : Cardinality(U) = (2 * n) \div 10

\* the rows train_test_split puts in the test part: all it did not train on
TestRows(frame, T) == DOMAIN frame \ T

\* TrainTestSplit.__init__; T is the train part the split draws
TrainTestSplit(st, frame, T) ==
    IF ~Ok(st) THEN st
    ELSE IF SplitFails(frame) THEN Raise(st, "ValueError")
    ELSE The({
            Return(Count(st, "n_split"),
                   [text_train |-> [i \in T |-> frame[i].text],
                    text_test |-> [i \in U |-> frame[i].text],
                    category_train |-> [i \in T |-> frame[i].category],
                    category_test |-> [i \in U |-> frame[i].category]])
                      : U \in {TestRows(frame, T)} })

\* the property TextProcessor.split
split(st, S, T) ==
    IF ~Ok(st) THEN st
    ELSE IF st.s._split = None
         THEN The({
              The({
                 IF ~Ok(b) THEN b
                 ELSE Return([b EXCEPT !.s._split = Some(b.ret)], b.ret)
                   : b \in {TrainTestSplit(a, a.ret, T)} })
                   : a \in {df(st, S)} })
         ELSE Return(st, Get(st.s._split))

\* Vectorize.__init__: the type is tested before anything is fitted
Vectorize(st, sp, vectorizer_type) ==
    IF ~Ok(st) THEN st
    ELSE IF vectorizer_type \notin VectorizerType THEN Raise(st, "RuntimeError")
    ELSE Return(Count(st, "n_vecfit"),
                [kind |-> vectorizer_type,
                 fitted_on |-> sp.text_train,
                 train |-> DOMAIN sp.text_train,
                 test |-> DOMAIN sp.text_test])

\* the property TextProcessor.vectorize
vectorize(st, S, T) ==
    IF ~Ok(st) THEN st
    ELSE IF st.s._vectorize = None
         THEN The({
              The({
                 IF ~Ok(b) THEN b
                 ELSE Return([b EXCEPT !.s._vectorize = Some(b.ret)], b.ret)
                   : b \in {Vectorize(a, a.ret, a.s.vectorizer_type)} })
                   : a \in {split(st, S, T)} })
         ELSE Return(st, Get(st.s._vectorize))

\* Model.fit: self.model.fit is looked up before its arguments are evaluated
fit(st, S, T) ==
    IF ~Ok(st) THEN st
    ELSE IF st.s.model = None THEN Raise(st, "AttributeError")
    ELSE The({
         The({
            IF ~Ok(b) THEN b
            ELSE Return(Count([b EXCEPT !.s.model = Some([Get(@) EXCEPT !.fitted = TRUE])],
                              "n_fit"), None)
                                : b \in {split(a, S, T)} })
                                : a \in {vectorize(st, S, T)} })

\* Model.predict; an estimator that was never fitted raises NotFittedError
predict(st, S, T) ==
    IF ~Ok(st) THEN st
    ELSE IF st.s.model = None THEN Raise(st, "AttributeError")
    ELSE The({
            IF ~Ok(a) THEN a
            ELSE IF ~Get(a.s.model).fitted THEN Raise(a, "NotFittedError")
            ELSE Return(Count(a, "n_predict"), [rows |-> a.ret.test])
              : a \in {vectorize(st, S, T)} })

\* sklearn's accuracy_score(self.split.category_test, self.predict())
Score(st, S, T) ==
    The({ predict(a, S, T)
      : a \in {split(st, S, T)} })

\* the property Model.accuracy_score
accuracy_score(st, S, T) ==
    IF ~Ok(st) THEN st
    ELSE IF st.s._score = None
         THEN The({
                 IF ~Ok(a) THEN a
                 ELSE Return([a EXCEPT !.s._score = Some([of |-> a.ret.rows])],
                             [of |-> a.ret.rows])
                               : a \in {Score(st, S, T)} })
         ELSE Return(st, Get(st.s._score))

\* Model.print_accuracy_score: self.model_type.value is formatted before
\* self.accuracy_score, and only a member of ModelType has a value
print_accuracy_score(st, S, T) ==
    IF ~Ok(st) THEN st
    ELSE IF Get(st.s.model_type) \notin ModelType THEN Raise(st, "AttributeError")
    ELSE The({ Return(a, None)
      : a \in {accuracy_score(st, S, T)} })

\* Model.print_classification_report
print_classification_report(st, S, T) ==
    The({ Return(a, None)
      : a \in {Score(st, S, T)} })

\* Model.run
run(st, S1, S2, T) ==
    The({ The({ The({ print_classification_report(c, S2, T)
                      : c \in {print_accuracy_score(b, S2, T)} })
                : b \in {fit(a, S2, T)} })
          : a \in {pre_processor(st, S1, S2)} })

(***************************************************************************)
(* The cleaner as a state machine: one step per statement of clean_text,   *)
(* then one more call of clean_text on the string it returned              *)
(***************************************************************************)
\* the pieces the bounded inputs are concatenated from
Pieces ==
    { <<" ">>, <<"h","t","t","p">>, <<"x">>, <<"[">>, <<"]">>, <<"1">>,
      <<"<","p",">">>, <<":">> }

RECURSIVE PieceStrings(_)
PieceStrings(n) ==
    IF n = 0 THEN {<<>>}
    ELSE LET prev == PieceStrings(n - 1)
         IN prev \cup {s \o p : s \in prev, p \in Pieces}

\* '<p>BREAKING: Visit http://x.com NOW!! [ad] 2024</p>'
ScenarioBreaking ==
    <<"<","p",">","B","R","E","A","K","I","N","G",":"," ","V","i","s","i","t",
      " ","h","t","t","p",":","/","/","x",".","c","o","m"," ","N","O","W","!",
      "!"," ","[","a","d","]"," ","2","0","2","4","<","/","p",">">>

\* '[a[b]c]'
ScenarioNested ==
    <<"[","a","[","b","]","c","]">>

\* 'see http now'
ScenarioBareHttp ==
    <<"s","e","e"," ","h","t","t","p"," ","n","o","w">>

\* 'HTTP://X.COM visits feet'
ScenarioUpperUrl ==
    <<"H","T","T","P",":","/","/","X",".","C","O","M"," ","v","i","s","i","t",
      "s"," ","f","e","e","t">>

\* 'x='
ScenarioTrailing ==
    <<"x","=">>

ScenarioInputs ==
    {ScenarioBreaking, ScenarioNested, ScenarioBareHttp, ScenarioUpperUrl,
     ScenarioTrailing}

Inputs == PieceStrings(MaxPieces) \cup ScenarioInputs

\* the pipeline before Model(...) is called, with the arguments of the call
NoInstance(args) == [built |-> FALSE, args |-> args]
NoGhost ==
    [ops |-> 0, last |-> "none", outcome |-> "ok", n_read_csv |-> 0,
     n_assemble |-> 0, n_clean |-> 0, n_split |-> 0, n_vecfit |-> 0,
     n_fit |-> 0, n_predict |-> 0]
\* run_model was not called
NotCalled == [i |-> 0, at |-> "none"]
DefaultArgs == [vectorizer_type |-> "Tfidf", model_type |-> "nb", sample_size |-> NRows]

InitClean ==
    /\ input \in Inputs
    /\ text = Tag(input)
    /\ cpc = 0
    /\ again = <<>>
    /\ self = NoInstance(DefaultArgs)
    /\ ghost = NoGhost
    /\ rm = NotCalled

\* the next statement of clean_text
CleanStep ==
    /\ cpc < NStages
    /\ text' = clean_text_stage(cpc + 1, text)
    /\ cpc' = cpc + 1
    /\ UNCHANGED <<input, again, self, ghost, rm>>

\* clean_text has returned; its result is cleaned once more
Reclean ==
    /\ cpc = NStages
    /\ again' = clean_text(Str(text))
    /\ cpc' = NStages + 1
    /\ UNCHANGED <<input, text, self, ghost, rm>>

NextClean == CleanStep \/ Reclean

SpecClean == InitClean /\ [][NextClean]_vars

(***************************************************************************)
(* remove_numbers called on its own: under SpecNumbers cpc counts the      *)
(* calls made, and text is the argument, then the value returned           *)
(***************************************************************************)
NumberPieces == { <<" ">>, <<"\n">>, <<"x">>, <<"1">>, <<"=">>, <<"_">> }

RECURSIVE NumberStrings(_)
NumberStrings(n) ==
    IF n = 0 THEN {<<>>}
    ELSE LET prev == NumberStrings(n - 1)
         IN prev \cup {s \o p : s \in prev, p \in NumberPieces}

\* 'foo=1'
ScenarioFooEq ==
    <<"f","o","o","=","1">>

NumberInputs == NumberStrings(MaxPieces) \cup {ScenarioFooEq}

InitNumbers ==
    /\ input \in NumberInputs
    /\ text = Tag(input)
    /\ cpc = 0
    /\ again = <<>>
    /\ self = NoInstance(DefaultArgs)
    /\ ghost = NoGhost
    /\ rm = NotCalled

\* remove_numbers(text)
CallRemoveNumbers ==
    /\ cpc = 0
    /\ text' = remove_numbers(text)
    /\ cpc' = 1
    /\ UNCHANGED <<input, again, self, ghost, rm>>

NextNumbers == CallRemoveNumbers

SpecNumbers == InitNumbers /\ [][NextNumbers]_vars

(***************************************************************************)
(* The pipeline as a state machine: Model(...) is called once, then at     *)
(* most MaxOps of the instance's methods and properties, in any order      *)
(***************************************************************************)
Args ==
    [vectorizer_type : VectorizerArgs, model_type : ModelArgs,
     sample_size : SampleSizes]

Init ==
    /\ input = <<>>
    /\ text = <<>>
    /\ cpc = 0
    /\ again = <<>>
    /\ self \in {NoInstance(a) : a \in Args}
    /\ ghost = NoGhost
    /\ rm = NotCalled

\* the state a call starts from
St == [s |-> self, g |-> [ghost EXCEPT !.outcome = "ok"], ret |-> None]

\* the call `name` ended in state r (returned, or raised r.g.outcome)
Call(name, r) ==
    /\ self' = r.s
    /\ ghost' = [r.g EXCEPT !.ops = @ + 1, !.last = name]
    /\ UNCHANGED <<input, text, cpc, again, rm>>

CanCall == self.built /\ ghost.ops < MaxOps

\* the shuffles a call that reads self.df may draw
SampleChoices == IF self._df = None THEN Samples(self.sample_size) ELSE {{}}
\* the frame self.df holds once it was read with shuffle S
FrameAfter(S) == IF self._df = None THEN create_data_frame(St, S).ret ELSE Get(self._df)
\* the train parts a call that reads self.split may draw
SplitChoices(S) ==
    IF self._split # None THEN {{}}
    ELSE The({
            IF SplitFails(frame) THEN {{}} ELSE TrainChoices(frame)
              : frame \in {FrameAfter(S)} })

\* m = Model(true_news, fake_news, vectorizer_type, model_type, sample_size)
Construct ==
    /\ ~self.built
    /\ LET r == Model_init(St, self.args)
       IN /\ self' = r.s
          /\ ghost' = [r.g EXCEPT !.last = "Model"]
    /\ UNCHANGED <<input, text, cpc, again, rm>>

CallCreateDataFrame ==
    /\ CanCall
    /\ \E S \in Samples(self.sample_size) :
          Call("create_data_frame", create_data_frame(St, S))

CallDf ==
    /\ CanCall
    /\ \E S \in SampleChoices : Call("df", df(St, S))

CallCleanupText ==
    /\ CanCall
    /\ \E S \in SampleChoices : Call("cleanup_text", cleanup_text(St, S))

CallPreProcessor ==
    /\ CanCall
    /\ \E S1 \in Samples(self.sample_size) : \E S2 \in SampleChoices :
          Call("pre_processor", pre_processor(St, S1, S2))

CallSplit ==
    /\ CanCall
    /\ \E S \in SampleChoices : \E T \in SplitChoices(S) :
          Call("split", split(St, S, T))

CallVectorize ==
    /\ CanCall
    /\ \E S \in SampleChoices : \E T \in SplitChoices(S) :
          Call("vectorize", vectorize(St, S, T))

CallFit ==
    /\ CanCall
    /\ \E S \in SampleChoices : \E T \in SplitChoices(S) :
          Call("fit", fit(St, S, T))

CallPredict ==
    /\ CanCall
    /\ \E S \in SampleChoices : \E T \in SplitChoices(S) :
          Call("predict", predict(St, S, T))

CallAccuracyScore ==
    /\ CanCall
    /\ \E S \in SampleChoices : \E T \in SplitChoices(S) :
          Call("accuracy_score", accuracy_score(St, S, T))

CallPrintAccuracyScore ==
    /\ CanCall
    /\ \E S \in SampleChoices : \E T \in SplitChoices(S) :
          Call("print_accuracy_score", print_accuracy_score(St, S, T))

CallPrintClassificationReport ==
    /\ CanCall
    /\ \E S \in SampleChoices : \E T \in SplitChoices(S) :
          Call("print_classification_report", print_classification_report(St, S, T))

CallRun ==
    /\ CanCall
    /\ \E S1 \in Samples(self.sample_size) : \E S2 \in SampleChoices :
          \E T \in SplitChoices(S2) : Call("run", run(St, S1, S2, T))

Next ==
    \/ Construct
    \/ CallCreateDataFrame
    \/ CallDf
    \/ CallCleanupText
    \/ CallPreProcessor
    \/ CallSplit
    \/ CallVectorize
    \/ CallFit
    \/ CallPredict
    \/ CallAccuracyScore
    \/ CallPrintAccuracyScore
    \/ CallPrintClassificationReport
    \/ CallRun

Spec == Init /\ [][Next]_vars

(***************************************************************************)
(* run_model as a state machine: for each vectorizer type a Model is       *)
(* constructed and run; Model.run is taken one statement at a time, and an *)
(* exception raised by a statement ends run and run_model                  *)
(***************************************************************************)
\* run_model: vectorizer_types
vectorizer_types == <<"Tfidf", "Count">>

\* the statements of Model.run
RunStatements ==
    <<"pre_processor", "fit", "print_accuracy_score", "print_classification_report">>

\* mutant of RunStatement: the report fits the model again before predicting
RunStatement_refit(n, st, S1, S2, T) ==
    CASE n = 1 -> pre_processor(st, S1, S2)
      [] n = 2 -> fit(st, S2, T)
      [] n = 3 -> print_accuracy_score(st, S2, T)
      [] n = 4 -> The({ print_classification_report(a, S2, T) : a \in {fit(st, S2, T)} })

\* statement n of Model.run
RunStatement(n, st, S1, S2, T) ==
    CASE n = 1 -> pre_processor(st, S1, S2)
      [] n = 2 -> fit(st, S2, T)
      [] n = 3 -> print_accuracy_score(st, S2, T)
      [] n = 4 -> print_classification_report(st, S2, T)

\* the arguments of Model(...) in iteration i of run_model
RunModelArgs(i) ==
    [vectorizer_type |-> vectorizer_types[i], model_type |-> rm.model_type,
     sample_size |-> rm.sample_size]

\* run_model(true_news, fake_news, sample_size, model_type) was called
InitRunModel ==
    /\ input = <<>>
    /\ text = <<>>
    /\ cpc = 0
    /\ again = <<>>
    /\ ghost = NoGhost
    /\ rm \in [i : {1}, at : {"Model"}, model_type : ModelArgs, sample_size : SampleSizes]
    /\ self = NoInstance(RunModelArgs(1))

\* m = Model(..., vectorizer_type=vectorizer_type, ...): a new instance, with
\* counters of its own
RunModelConstruct ==
    /\ rm.at = "Model"
    /\ \E r \in {Model_init([s |-> NoInstance(RunModelArgs(rm.i)), g |-> NoGhost,
                              ret |-> None], RunModelArgs(rm.i))} :
          /\ self' = r.s
          /\ ghost' = [r.g EXCEPT !.last = "Model"]
    /\ rm' = [rm EXCEPT !.at = RunStatements[1]]
    /\ UNCHANGED <<input, text, cpc, again>>

\* where run_model stands after statement n of m.run() returned
AfterStatement(n) ==
    IF n < Len(RunStatements) THEN [rm EXCEPT !.at = RunStatements[n + 1]]
    ELSE IF rm.i < Len(vectorizer_types) THEN [rm EXCEPT !.i = @ + 1, !.at = "Model"]
    ELSE [rm EXCEPT !.at = "returned"]

\* m.run(): its next statement
RunModelStatement ==
    \E n \in 1..Len(RunStatements) :
       /\ rm.at = RunStatements[n]
       /\ \E S1 \in (IF n = 1 THEN Samples(self.sample_size) ELSE {{}}) :
          \E S2 \in SampleChoices :
          \E T \in (IF n = 1 THEN {{}} ELSE SplitChoices(S2)) :
          \E r \in {RunStatement(n, St, S1, S2, T)} :
             /\ self' = r.s
             /\ ghost' = [r.g EXCEPT !.last = RunStatements[n]]
             /\ rm' = IF Ok(r) THEN AfterStatement(n) ELSE [rm EXCEPT !.at = "raised"]
       /\ UNCHANGED <<input, text, cpc, again>>

NextRunModel == RunModelConstruct \/ RunModelStatement

SpecRunModel == InitRunModel /\ [][NextRunModel]_vars

(***************************************************************************)
(* Claims about the cleaner (checked under SpecClean)                      *)
(***************************************************************************)
Returned == cpc >= NStages
Origins(t) == {Org(t[k]) : k \in 1..Len(t)}

\* the stages in the order the specification lists them, spelled out
FixedOrderValue(s, n) ==
    LET s0 == Tag(s)
        s1 == strip_html(s0)
        s2 == lower(s1)
        s3 == remove_between_square_brackets(s2)
        s4 == remove_urls(s3)
        s5 == remove_stopwords(s4)
        s6 == remove_numbers(s5)
        s7 == remove_accent_signs(s6)
        s8 == remove_new_lines(s7)
        s9 == tokenize(s8)
        s10 == lemmatizer(s9)
        s11 == Join(s10, <<SP>>)
    IN CASE n = 0 -> s0 [] n = 1 -> s1 [] n = 2 -> s2 [] n = 3 -> s3
         [] n = 4 -> s4 [] n = 5 -> s5 [] n = 6 -> s6 [] n = 7 -> s7
         [] n = 8 -> s8 [] n = 9 -> s9 [] n = 10 -> s10 [] OTHER -> s11

\* C1: after n statements of clean_text the value of `text` is the input put
\* through the first n stages of the fixed order (strip markup, lowercase,
\* brackets, URLs, stopwords/punctuation, digits, quotes, newlines, tokenize,
\* lemmatize, join), each stage fed the previous stage's output; the string
\* returned is the input put through all eleven
C1_FixedOrder == text = FixedOrderValue(input, cpc)

\* a call that returned on an input for which the order of bracket removal
\* and URL removal decides the result
C1_Witness ==
    /\ cpc = NStages
    /\ input = <<"h","t","t","p","[","x","]">>
    /\ Str(text) = <<"h","t","t","p">>

\* the whitespace-delimited tokens of s, as index ranges
TokenRanges(s) ==
    {r \in (1..Len(s)) \X (1..Len(s)) :
        /\ r[1] <= r[2]
        /\ \A k \in r[1]..r[2] : ~IsSpace(s[k])
        /\ (r[1] = 1 \/ IsSpace(s[r[1] - 1]))
        /\ (r[2] = Len(s) \/ IsSpace(s[r[2] + 1]))}

\* the token at r begins with http, in any letter case
BeginsWithHttp(s, r) ==
    /\ r[2] >= r[1] + 3
    /\ <<LowerChar(s[r[1]]), LowerChar(s[r[1]+1]), LowerChar(s[r[1]+2]),
         LowerChar(s[r[1]+3])>> = <<"h","t","t","p">>

\* no character of the input's range r is in the returned string
Absent(r) == Origins(text) \cap (r[1]..r[2]) = {}

\* the http of the token at r is intact after markup stripping, lowercasing
\* and bracket removal, and a non-space character follows it there
HttpStillFollowed(s, r) ==
    LET s3 == FixedOrderValue(s, 3)
    IN \E k \in 1..Len(s3) :
          /\ k + 4 <= Len(s3)
          /\ \A d \in 0..3 : Org(s3[k + d]) = r[1] + d
          /\ ~IsSpace(Ch(s3[k + 4]))

\* C3 as stated: no character of a whitespace-delimited token that begins
\* with http (the bare token http included) is in the output of clean_text
C3_Original ==
    cpc = NStages =>
        \A r \in TokenRanges(input) : BeginsWithHttp(input, r) => Absent(r)

\* C3 as amended: no character of a whitespace-delimited token that begins
\* with http is in the output, provided its http is still followed by a
\* non-space character once markup and bracketed spans have been removed
C3_Amended ==
    cpc = NStages =>
        \A r \in TokenRanges(input) :
            (BeginsWithHttp(input, r) /\ HttpStillFollowed(input, r)) => Absent(r)

\* a call that returned text after deleting such a token
C3_Witness ==
    /\ cpc = NStages
    /\ text # <<>>
    /\ \E r \in TokenRanges(input) :
          BeginsWithHttp(input, r) /\ HttpStillFollowed(input, r) /\ Absent(r)

\* number of "[" minus number of "]" in s[i..j]
RECURSIVE Depth(_, _, _)
Depth(s, i, j) ==
    IF j < i THEN 0
    ELSE Depth(s, i, j - 1)
         + (IF s[j] = "[" THEN 1 ELSE IF s[j] = "]" THEN -1 ELSE 0)

\* the spans of s delimited by a "[" and its matching "]"
BracketSpans(s) ==
    {r \in (1..Len(s)) \X (1..Len(s)) :
        /\ r[1] < r[2]
        /\ s[r[1]] = "[" /\ s[r[2]] = "]"
        /\ Depth(s, r[1], r[2]) = 0
        /\ \A k \in r[1]..(r[2] - 1) : Depth(s, r[1], k) > 0}

\* C4 as stated: no character of a span delimited by "[" and its matching
\* "]" (nested spans included) is in the output of clean_text
C4_Original ==
    cpc = NStages => \A r \in BracketSpans(input) : Absent(r)

HasDigit(t) == \E k \in 1..Len(t) : IsDigit(Ch(t[k]))

\* C5: from the digit-removal stage on, no value of `text` holds a digit
\* (as a string or as a list of tokens), and neither does the returned string
C5_NoDigit ==
    /\ (cpc \in {6, 7, 8} \/ cpc >= NStages) => ~HasDigit(text)
    /\ cpc \in {9, 10} => \A k \in 1..Len(text) : ~HasDigit(text[k])

\* a call that returned text on an input holding a digit
C5_Witness ==
    /\ cpc = NStages
    /\ \E k \in 1..Len(input) : IsDigit(input[k])
    /\ text # <<>>

BreakingVisit == <<"b","r","e","a","k","i","n","g"," ","v","i","s","i","t">>

\* C6 as stated: the scenario input is cleaned to exactly "breaking visit"
C6_Original ==
    (cpc = NStages /\ input = ScenarioBreaking) => Str(text) = BreakingVisit

\* C6 as amended: the scenario input is cleaned to "breaking visit " - the
\* tokens breaking, visit and the empty token that tokenization leaves after
\* the deleted 2024, joined by single spaces, hence a trailing space
C6_Amended ==
    (cpc = NStages /\ input = ScenarioBreaking) =>
        Str(text) = BreakingVisit \o <<" ">>

\* the scenario call has returned
C6_Witness ==
    cpc = NStages /\ input = ScenarioBreaking /\ Len(text) = Len(BreakingVisit) + 1

\* C9: clean_text is not idempotent: cleaning the output of clean_text for
\* "x=" (and for the scenario input) once more gives a different string
C9_NotIdempotent ==
    (cpc = NStages + 1 /\ input \in {ScenarioTrailing, ScenarioBreaking}) =>
        again # Str(text)

\* the output for "x=" was cleaned once more and came back shorter
C9_Witness ==
    /\ cpc = NStages + 1
    /\ input = ScenarioTrailing
    /\ Str(text) = <<"x"," ">>
    /\ again = <<"x">>

(***************************************************************************)
(* Claims about the pipeline (checked under Spec)                          *)
(***************************************************************************)
\* the text row i of the two files holds as read
RawText(i) == IF i <= NTrue THEN TrueCsv[i] ELSE FakeCsv[i - NTrue]

Unsupported ==
    \/ self.vectorizer_type \notin VectorizerType
    \/ Get(self.model_type) \notin ModelType

\* run() was the only call on the instance
RanAlone == self.built /\ ghost.ops = 1 /\ ghost.last = "run"

\* run() returned without raising
RunCompleted == self.built /\ ghost.last = "run" /\ ghost.outcome = "ok"

\* C2: a run started with an unsupported vectorizer or model selector ends
\* in the configuration error (RuntimeError), raised before any CSV was
\* read, any corpus assembled, any document cleaned, any split made and any
\* model fitted
C2_Original ==
    (RanAlone /\ Unsupported) =>
        /\ ghost.outcome = "RuntimeError"
        /\ ghost.n_read_csv = 0
        /\ ghost.n_assemble = 0
        /\ ghost.n_clean = 0
        /\ ghost.n_split = 0
        /\ ghost.n_fit = 0

\* C7: after every completed run the train rows and the test rows of the
\* split are disjoint and together are exactly the rows of the sampled
\* corpus the run cleaned; the labels are split along the same rows and the
\* rows reported on are the test rows
C7_Partition ==
    RunCompleted =>
        LET sp == Get(self._split)
            train == DOMAIN sp.text_train
            test == DOMAIN sp.text_test
        IN /\ train \cap test = {}
           /\ train \cup test = DOMAIN Get(self._df)
           /\ DOMAIN sp.category_train = train
           /\ DOMAIN sp.category_test = test
           /\ Get(self._score).of = test

\* a completed run that cleaned a corpus, trained on most of its rows and
\* tested on the others
C7_Witness ==
    /\ RunCompleted
    /\ ghost.n_clean > 0
    /\ Cardinality(DOMAIN Get(self._split).text_train) = NTrain(NRows)
    /\ Cardinality(DOMAIN Get(self._split).text_test) = NRows - NTrain(NRows)

\* the calls that run cleanup_text
Cleaners == {"cleanup_text", "pre_processor", "run"}

\* C8 as stated: once the assembled corpus is stored no operation changes
\* the documents or labels it holds
C8_Original ==
    [][(self.built /\ self._df # None) => self'._df = self._df]_vars

\* C8: once the assembled corpus is stored no operation changes which rows
\* it holds or their labels; cleanup_text, pre_processor and run overwrite
\* the stored text of every row with clean_text of it, and every other
\* operation leaves the stored text as it is
C8_Amended ==
    [][(self.built /\ self._df # None) =>
          LET old == Get(self._df)
              new == Get(self'._df)
          IN /\ DOMAIN new = DOMAIN old
             /\ \A i \in DOMAIN old :
                   /\ new[i].category = old[i].category
                   /\ new[i].text = IF ghost'.last \in Cleaners
                                    THEN clean_text(old[i].text)
                                    ELSE old[i].text]_vars

\* cleanup_text was called on a stored corpus, and the stored text of a row
\* is no longer the text read from the file
C8_Witness ==
    /\ self.built
    /\ ghost.ops >= 2
    /\ ghost.last = "cleanup_text"
    /\ self._df # None
    /\ \E i \in DOMAIN Get(self._df) : Get(self._df)[i].text # RawText(i)

\* C10: over a full run() corpus assembly, the split and the vectorizer fit
\* each execute at most once
C10_Original ==
    RanAlone =>
        /\ ghost.n_assemble <= 1
        /\ ghost.n_split <= 1
        /\ ghost.n_vecfit <= 1

(***************************************************************************)
(* Claims about remove_numbers (checked under SpecNumbers)                 *)
(***************************************************************************)
\* character k of s lies in a run of characters passing `kind` that holds
\* a digit
InDigitRun(s, k, kind) ==
    LET in(c) == IF kind = "word" THEN IsWord(c) ELSE ~IsSpace(c)
    IN /\ in(s[k])
       /\ \E d \in 1..Len(s) :
             /\ IsDigit(s[d])
             /\ \A m \in (IF d < k THEN d ELSE k)..(IF d < k THEN k ELSE d) : in(s[m])

\* s without the characters of its runs of `kind` that hold a digit
WithoutDigitRuns(s, kind) ==
    SelectSeq(Tag(s), LAMBDA c : ~InDigitRun(s, Org(c), kind))

\* C11 as stated: remove_numbers returns its input without the characters of
\* the whitespace-delimited runs that hold a digit (the foo= of foo=1
\* included), every other character left in place
C11_Original ==
    cpc = 1 => text = WithoutDigitRuns(input, "nonspace")

\* C11 as amended: remove_numbers returns its input without the characters
\* of the maximal runs of word characters (letters, digits, underscore) that
\* hold a digit; every other character, the rest of a whitespace-delimited
\* run included, is left in place
C11_Amended ==
    cpc = 1 => text = WithoutDigitRuns(input, "word")

\* remove_numbers('foo=1') has returned 'foo='
C11_Witness ==
    /\ cpc = 1
    /\ input = ScenarioFooEq
    /\ Str(text) = <<"f","o","o","=">>

(***************************************************************************)
(* Claims about run_model (checked under SpecRunModel)                     *)
(***************************************************************************)
\* the estimator of the instance has been fitted
Fitted == self.built /\ self.model # None /\ Get(self.model).fitted

\* this step is taken by the instance m is bound to (no new Model is made)
SameInstance == self.built /\ rm.at # "Model"

\* C12: in run_model every instance is fitted at most once, and only while
\* it is untrained and has predicted nothing; every predict() is made by an
\* instance that was fitted exactly once before; and an instance whose run()
\* returned was fitted once and then predicted twice (for the accuracy
\* score, then for the classification report)
C12_Lifecycle ==
    [][SameInstance =>
         /\ ghost'.n_fit > ghost.n_fit =>
               /\ ~Fitted
               /\ ghost.n_fit = 0 /\ ghost.n_predict = 0
               /\ ghost'.n_fit = 1 /\ ghost'.n_predict = 0
               /\ rm.at = "fit"
         /\ ghost'.n_predict > ghost.n_predict =>
               /\ Fitted
               /\ ghost.n_fit = 1 /\ ghost'.n_fit = 1
               /\ ghost'.n_predict = ghost.n_predict + 1
               /\ rm.at \in {"print_accuracy_score", "print_classification_report"}
         /\ (rm.at = "print_classification_report" /\ rm'.at # "raised") =>
               ghost'.n_fit = 1 /\ ghost'.n_predict = 2]_vars

\* run_model returned: its second instance was fitted once and predicted twice
C12_Witness ==
    /\ rm.at = "returned"
    /\ self.vectorizer_type = vectorizer_types[2]
    /\ Fitted
    /\ ghost.n_fit = 1
    /\ ghost.n_predict = 2

\* every row of the stored corpus holds clean_text of the document read from
\* the file
CorpusCleaned ==
    /\ self._df # None
    /\ \A i \in DOMAIN Get(self._df) : Get(self._df)[i].text = clean_text(RawText(i))

\* the cached split holds the rows of the stored corpus with the text stored
\* there
SplitOfCorpus ==
    LET sp == Get(self._split)
        frame == Get(self._df)
    IN /\ DOMAIN sp.text_train \cup DOMAIN sp.text_test = DOMAIN frame
       /\ \A i \in DOMAIN sp.text_train : sp.text_train[i] = frame[i].text
       /\ \A i \in DOMAIN sp.text_test : sp.text_test[i] = frame[i].text

====
